---- MODULE Spec2Model ----
(***************************************************************************)
(* A model of the utility-based DecisionEngine (src/DecisionEngine.h, the  *)
(* shared_ptr revision at lines 1-347) together with Decision              *)
(* (src/Decision.h) as a state machine.                                    *)
(*                                                                         *)
(* Numbers that are floats in the source are exact rationals here, written *)
(* as pairs <<numerator, denominator>> with a positive denominator.        *)
(* A Consideration's score is a multiple of 1/Grid in [0,1].               *)
(***************************************************************************)
EXTENDS Integers, Sequences, FiniteSets, TLC

----------------------------------------------------------------------------
(* Bounds of the model *)

\* number of addDecision calls explored
MaxDecisions == 2
\* largest number of Considerations of one Decision
MaxCons == 1
\* Consideration scores are 0/Grid, 1/Grid, ..., Grid/Grid
Grid == 4
\* the highest tier an addDecision call names (MostUseful at most)
MaxTier == 2
MaxK == 3
MaxListed == 2
MaxPoints == 3
MaxX == 2
MaxY == 2

----------------------------------------------------------------------------
(* Program constants *)

\* enum class Event { Always, Penalized }
Always == 0
Penalized == 1
Events == {Always, Penalized}

\* enum class UtilityScore
Ignore == 0
SlightlyUseful == 1
Useful == 2
VeryUseful == 3
MostUseful == 4
UtilityScore == {Ignore, SlightlyUseful, Useful, VeryUseful, MostUseful}

\* the 1e-6 of Decision::computeScore, as its reciprocal
Million == 1000000

Names == 1..MaxDecisions

\* the tiers an addDecision call may name
Tiers == {u \in UtilityScore : u <= MaxTier}

\* the event lists an addDecision call may name: distinct events, any order
EventLists ==
  {<<e>> : e \in Events}
    \cup {<<e1, e2>> : <<e1, e2>> \in {p \in Events \X Events : p[1] # p[2]}}

\* the scores the Considerations of one Decision may return, as numerators over Grid
ConsScores(k) == [1..k -> 0..Grid]

----------------------------------------------------------------------------
(* State *)

VARIABLES
  rules,           \* std::map<Event, std::vector<Decision>>
  active_rules,    \* std::vector<Rule>, Rule = (Event, shared_ptr<Decision>)
  active_events,   \* std::set<Event>
  updated_events,  \* std::set<Event>
  added,           \* number of addDecision calls so far (names the Decisions)
  last,            \* what the last operation returned
  op,              \* the last operation called, with its argument
  call,            \* the last call of a pure function: its input and its result
  trip,            \* the script of a re-registration round trip
  activation_graph \* ActivationGraph& of the BHUMAN build: its dlist

vars == <<rules, active_rules, active_events, updated_events, added, last, op, call, trip,
          activation_graph>>

\* class Decision: name, utility, the number of Considerations, and whether
\* execution_timestamp differs from the epoch
Decision(n, u, k) == [name |-> n, utility |-> u, ncons |-> k, executed |-> FALSE]

\* Decision::isNeverExecuted
isNeverExecuted(d) == ~d.executed

\* using Rule = std::tuple<Event, std::shared_ptr<Decision>>
Rule(e, d) == [event |-> e, decision |-> d]

\* what the last operation gave back: for getBestDecision how it ended and the
\* position in active_rules of the Decision it returned; "none" for the
\* operations that return nothing
Outcome(st, idx) == [status |-> st, index |-> idx]
Nothing == Outcome("none", 0)

\* the operation called last; for raiseEvent and clearEvent also the event and
\* whether that event was active when the call was made
Op(n) == [name |-> n]
EventOp(n, e) == [name |-> n, event |-> e, active |-> e \in active_events]

NoCall == [fn |-> "none"]
NoTrip == [phase |-> "none"]

\* the dlist of a default-constructed ActivationGraph (dummy_activation_graph)
NoGraph == <<>>

----------------------------------------------------------------------------
(* Rational helpers *)

Less(p, q) == p[1] * q[2] < q[1] * p[2]
Equal(p, q) == p[1] * q[2] = q[1] * p[2]
IsZero(p) == p[1] = 0
Rat(n) == <<n, 1>>

----------------------------------------------------------------------------
(* Decision::computeScore *)

\* the formula with 1 + score for 1 - score
Adjusted_sign_error(a, k) == <<a * Grid * k + (Grid + a) * (k - 1) * a, Grid * Grid * k>>

\* score + ((1 - score) * modification_factor * score), for score = a/Grid
\* and modification_factor = 1 - 1/k = (k-1)/k
Adjusted(a, k) == <<a * Grid * k + (Grid - a) * (k - 1) * a, Grid * Grid * k>>

\* total_score < 1e-6
BelowEpsilon(p) == p[1] < (p[2] + Million - 1) \div Million

RECURSIVE ScoreLoop(_, _, _, _)
ScoreLoop(total, scores, i, k) ==
  IF i > k THEN total
  ELSE LET adj == Adjusted(scores[i], k)
           t   == <<total[1] * adj[1], total[2] * adj[2]>>
       IN IF BelowEpsilon(t) THEN t ELSE ScoreLoop(t, scores, i + 1, k)

computeScore(d, scores) == ScoreLoop(Rat(d.utility), scores, 1, d.ncons)

\* the loop running over the Considerations from the last to the first
RECURSIVE InvokedLoop_backwards(_, _, _, _)
InvokedLoop_backwards(total, scores, i, k) ==
  IF i > k THEN <<>>
  ELSE LET adj == Adjusted(scores[k + 1 - i], k)
           t   == <<total[1] * adj[1], total[2] * adj[2]>>
       IN <<k + 1 - i>> \o (IF BelowEpsilon(t) THEN <<>>
                             ELSE InvokedLoop_backwards(t, scores, i + 1, k))

\* the loop without its break: every Consideration is called
RECURSIVE InvokedLoop_no_break(_, _, _, _)
InvokedLoop_no_break(total, scores, i, k) ==
  IF i > k THEN <<>> ELSE <<i>> \o InvokedLoop_no_break(total, scores, i + 1, k)

\* the Considerations whose computeScore the same loop calls, by their place
\* in the list, in the order of the calls
RECURSIVE InvokedLoop(_, _, _, _)
InvokedLoop(total, scores, i, k) ==
  IF i > k THEN <<>>
  ELSE LET adj == Adjusted(scores[i], k)
           t   == <<total[1] * adj[1], total[2] * adj[2]>>
       IN <<i>> \o (IF BelowEpsilon(t) THEN <<>> ELSE InvokedLoop(t, scores, i + 1, k))

Invoked(d, scores) == InvokedLoop(Rat(d.utility), scores, 1, d.ncons)

----------------------------------------------------------------------------
(* Sorting *)

\* std::stable_sort with comparator x.getUtility() > y.getUtility(): tier by
\* tier from the highest, the Decisions of that tier in their present order
StableSortDecisions(s) ==
  LET Tier(u) == SelectSeq(s, LAMBDA d : d.utility = u)
  IN Tier(MostUseful) \o Tier(VeryUseful) \o Tier(Useful) \o Tier(SlightlyUseful) \o Tier(Ignore)

\* a sort that is not stable: equal tiers come out in reverse order
sort_active_decisions_unstable(ar) ==
  LET rev == [i \in 1..Len(ar) |-> ar[Len(ar) + 1 - i]]
      Tier(u) == SelectSeq(rev, LAMBDA r : r.decision.utility = u)
  IN Tier(MostUseful) \o Tier(VeryUseful) \o Tier(Useful) \o Tier(SlightlyUseful) \o Tier(Ignore)

\* a sort_active_decisions that leaves the order as it is
sort_active_decisions_none(ar) == ar

\* DecisionEngine::sort_active_decisions: the same stable sort, on the Rules
sort_active_decisions(ar) ==
  LET Tier(u) == SelectSeq(ar, LAMBDA r : r.decision.utility = u)
  IN Tier(MostUseful) \o Tier(VeryUseful) \o Tier(Useful) \o Tier(SlightlyUseful) \o Tier(Ignore)

\* a sort_decisions whose loop stops after the first updated event
sort_decisions_rules_first_only(r, ue) ==
  [e \in Events |-> IF e \in ue /\ \A f \in ue : e <= f THEN StableSortDecisions(r[e]) ELSE r[e]]

\* DecisionEngine::sort_decisions: the new rules and active_rules
sort_decisions_rules(r, ue) ==
  [e \in Events |-> IF e \in ue THEN StableSortDecisions(r[e]) ELSE r[e]]

sort_decisions_active(ar, ae, ue) ==
  IF ue \cap ae # {} THEN sort_active_decisions(ar) ELSE ar

\* if (!updated_events.empty()) sort_decisions();
FlushedRules == IF updated_events # {} THEN sort_decisions_rules(rules, updated_events) ELSE rules
FlushedActive ==
  IF updated_events # {} THEN sort_decisions_active(active_rules, active_events, updated_events)
  ELSE active_rules

----------------------------------------------------------------------------
(* Operations *)

Init ==
  /\ rules = [e \in Events |-> <<>>]
  /\ active_rules = <<>>
  /\ active_events = {}
  /\ updated_events = {}
  /\ added = 0
  /\ last = Nothing
  /\ op = Op("construct")
  /\ call = NoCall
  /\ trip = NoTrip
  /\ activation_graph = NoGraph

RECURSIVE AppendToBuckets(_, _, _)
AppendToBuckets(r, es, d) ==
  IF es = <<>> THEN r
  ELSE AppendToBuckets([r EXCEPT ![Head(es)] = Append(@, d)], Tail(es), d)

SeqRange(s) == {s[i] : i \in 1..Len(s)}

\* an addDecision that does what its comment says: it also loads the new
\* Decision into active_rules for every named event that is active
addDecision_loading(u, e, k) ==
  /\ added < MaxDecisions
  /\ added' = added + 1
  /\ rules' = AppendToBuckets(rules, e, Decision(added + 1, u, k))
  /\ updated_events' = updated_events \cup SeqRange(e)
  /\ active_rules' = active_rules \o
       SelectSeq([i \in 1..Len(e) |-> [event |-> e[i], decision |-> Decision(added + 1, u, k)]],
                 LAMBDA r : r.event \in active_events)
  /\ UNCHANGED active_events
  /\ last' = Nothing
  /\ op' = Op("addDecision")
  /\ UNCHANGED call

\* DecisionEngine::addDecision(n, d, u, e, c, a) with k Considerations in c
Register(n, u, e, k) ==
  /\ rules' = AppendToBuckets(rules, e, Decision(n, u, k))
  /\ updated_events' = updated_events \cup SeqRange(e)
  /\ UNCHANGED <<active_rules, active_events>>
  /\ last' = Nothing
  /\ op' = Op("addDecision")
  /\ UNCHANGED call

\* addDecision called with a name not used before
addDecision(u, e, k) ==
  /\ added < MaxDecisions
  /\ added' = added + 1
  /\ Register(added + 1, u, e, k)

\* for (auto& decision : rules[e]) active_rules.emplace_back(e, make_shared<Decision>(decision))
LoadBucket(bucket, e) == [i \in 1..Len(bucket) |-> Rule(e, bucket[i])]

raiseEvent_always_loads(e) ==
  /\ rules' = FlushedRules
  /\ updated_events' = {}
  /\ active_rules' = sort_active_decisions(FlushedActive \o LoadBucket(FlushedRules[e], e))
  /\ active_events' = active_events \cup {e}
  /\ UNCHANGED added
  /\ last' = Nothing
  /\ op' = EventOp("raiseEvent", e)
  /\ UNCHANGED call

\* a raiseEvent that unloads what the other raised Events loaded
raiseEvent_unloads_others(e) ==
  /\ rules' = FlushedRules
  /\ updated_events' = {}
  /\ IF e \notin active_events
     THEN /\ active_rules' = sort_active_decisions(LoadBucket(FlushedRules[e], e))
          /\ active_events' = {e}
     ELSE /\ active_rules' = FlushedActive
          /\ UNCHANGED active_events
  /\ UNCHANGED added
  /\ last' = Nothing
  /\ op' = EventOp("raiseEvent", e)
  /\ UNCHANGED call

raiseEvent(e) ==
  /\ rules' = FlushedRules
  /\ updated_events' = {}
  /\ IF e \notin active_events
     THEN /\ active_rules' = sort_active_decisions(FlushedActive \o LoadBucket(FlushedRules[e], e))
          /\ active_events' = active_events \cup {e}
     ELSE /\ active_rules' = FlushedActive
          /\ UNCHANGED active_events
  /\ UNCHANGED added
  /\ last' = Nothing
  /\ op' = EventOp("raiseEvent", e)
  /\ UNCHANGED call

\* a clearActive that stops after active_rules.clear()
clearActive_keeps_events ==
  /\ active_rules' = <<>>
  /\ UNCHANGED active_events
  /\ UNCHANGED <<rules, updated_events, added>>
  /\ last' = Nothing
  /\ op' = Op("clearActive")
  /\ UNCHANGED call

clearActive ==
  /\ active_rules' = <<>>
  /\ active_events' = {}
  /\ UNCHANGED <<rules, updated_events, added>>
  /\ last' = Nothing
  /\ op' = Op("clearActive")
  /\ UNCHANGED call

\* a clear that empties one bucket of rules only
clear_first_bucket_only ==
  /\ active_rules' = <<>>
  /\ active_events' = {}
  /\ rules' = [rules EXCEPT ![Always] = <<>>]
  /\ UNCHANGED <<updated_events, added>>
  /\ last' = Nothing
  /\ op' = Op("clear")
  /\ UNCHANGED call

\* a clear that is rules.clear() alone, without clearActive()
clear_keeps_active ==
  /\ rules' = [e \in Events |-> <<>>]
  /\ UNCHANGED <<active_rules, active_events, updated_events, added>>
  /\ last' = Nothing
  /\ op' = Op("clear")
  /\ UNCHANGED call

\* a clear that stops after clearActive()
clear_keeps_rules ==
  /\ active_rules' = <<>>
  /\ active_events' = {}
  /\ UNCHANGED <<rules, updated_events, added>>
  /\ last' = Nothing
  /\ op' = Op("clear")
  /\ UNCHANGED call

clear ==
  /\ active_rules' = <<>>
  /\ active_events' = {}
  /\ rules' = [e \in Events |-> <<>>]
  /\ UNCHANGED <<updated_events, added>>
  /\ last' = Nothing
  /\ op' = Op("clear")
  /\ UNCHANGED call

\* a clearEvent whose std::remove_if result is not erased (as in the older
\* revision, src/DecisionEngine.h:452-459): the entries stay
clearEvent_no_erase(e) ==
  /\ active_events' = active_events \ {e}
  /\ UNCHANGED <<rules, active_rules, updated_events, added>>
  /\ last' = Nothing
  /\ op' = EventOp("clearEvent", e)
  /\ UNCHANGED call

\* a clearEvent that removes every entry whose Decision is bound under e,
\* whatever the event it was loaded for
clearEvent_by_decision(e) ==
  /\ active_rules' =
       SelectSeq(active_rules,
                 LAMBDA r : \A i \in 1..Len(rules[e]) : rules[e][i].name # r.decision.name)
  /\ active_events' = active_events \ {e}
  /\ UNCHANGED <<rules, updated_events, added>>
  /\ last' = Nothing
  /\ op' = EventOp("clearEvent", e)
  /\ UNCHANGED call

\* a clearEvent that also drops the bucket rules[e]
clearEvent_drops_bucket(e) ==
  /\ active_rules' = SelectSeq(active_rules, LAMBDA r : r.event # e)
  /\ active_events' = active_events \ {e}
  /\ rules' = [rules EXCEPT ![e] = <<>>]
  /\ UNCHANGED <<updated_events, added>>
  /\ last' = Nothing
  /\ op' = EventOp("clearEvent", e)
  /\ UNCHANGED call

\* a clearEvent that stops after active_events.insert(e) (line 176)
clearEvent_no_deactivate(e) ==
  /\ active_rules' = SelectSeq(active_rules, LAMBDA r : r.event # e)
  /\ active_events' = active_events \cup {e}
  /\ UNCHANGED <<rules, updated_events, added>>
  /\ last' = Nothing
  /\ op' = EventOp("clearEvent", e)
  /\ UNCHANGED call

clearEvent(e) ==
  /\ active_rules' = SelectSeq(active_rules, LAMBDA r : r.event # e)
  /\ active_events' = active_events \ {e}
  /\ UNCHANGED <<rules, updated_events, added>>
  /\ last' = Nothing
  /\ op' = EventOp("clearEvent", e)
  /\ UNCHANGED call

\* the Decisions among the candidates, by name
ActiveNames(ar) == {ar[i].decision.name : i \in 1..Len(ar)}

ConsOf(ar, n) == (CHOOSE i \in 1..Len(ar) : ar[i].decision.name = n)

\* what the sensor callbacks return during one query: for every Decision
\* among the candidates, the scores of its Considerations in list order
RECURSIVE ReadingsFor(_, _)
ReadingsFor(ar, names) ==
  IF names = {} THEN {<<>>}
  ELSE LET n == CHOOSE x \in names : TRUE
           k == ar[ConsOf(ar, n)].decision.ncons
       IN {(n :> s) @@ rd : s \in ConsScores(k), rd \in ReadingsFor(ar, names \ {n})}

Readings(ar) == ReadingsFor(ar, ActiveNames(ar))

\* the loop with "score >= highest_score" for "score > highest_score"
RECURSIVE BestLoop_later_tie(_, _, _, _, _)
BestLoop_later_tie(ar, rd, i, highest_score, best_index) ==
  IF i > Len(ar)
  THEN [highest_score |-> highest_score, best_index |-> best_index, evaluated |-> i - 1]
  ELSE LET decision == ar[i].decision
           utility  == Rat(decision.utility)
       IN IF Less(utility, highest_score) \/ IsZero(utility)
          THEN [highest_score |-> highest_score, best_index |-> best_index, evaluated |-> i - 1]
          ELSE LET score == computeScore(decision, rd[decision.name])
               IN IF ~Less(score, highest_score)
                  THEN IF Equal(score, utility)
                       THEN [highest_score |-> score, best_index |-> i, evaluated |-> i]
                       ELSE BestLoop_later_tie(ar, rd, i + 1, score, i)
                  ELSE BestLoop_later_tie(ar, rd, i + 1, highest_score, best_index)

\* the loop without "if (utility < highest_score || utility == 0) break"
RECURSIVE BestLoop_no_prune(_, _, _, _, _)
BestLoop_no_prune(ar, rd, i, highest_score, best_index) ==
  IF i > Len(ar)
  THEN [highest_score |-> highest_score, best_index |-> best_index, evaluated |-> i - 1]
  ELSE LET decision == ar[i].decision
           utility  == Rat(decision.utility)
           score    == computeScore(decision, rd[decision.name])
       IN IF Less(highest_score, score)
          THEN IF Equal(score, utility)
               THEN [highest_score |-> score, best_index |-> i, evaluated |-> i]
               ELSE BestLoop_no_prune(ar, rd, i + 1, score, i)
          ELSE BestLoop_no_prune(ar, rd, i + 1, highest_score, best_index)

\* the for loop of getBestDecision, positions counted from 1
RECURSIVE BestLoop(_, _, _, _, _)
BestLoop(ar, rd, i, highest_score, best_index) ==
  IF i > Len(ar)
  THEN [highest_score |-> highest_score, best_index |-> best_index, evaluated |-> i - 1]
  ELSE LET decision == ar[i].decision
           utility  == Rat(decision.utility)
       IN IF Less(utility, highest_score) \/ IsZero(utility)
          THEN [highest_score |-> highest_score, best_index |-> best_index, evaluated |-> i - 1]
          ELSE LET score == computeScore(decision, rd[decision.name])
               IN IF Less(highest_score, score)
                  THEN IF Equal(score, utility)
                       THEN [highest_score |-> score, best_index |-> i, evaluated |-> i]
                       ELSE BestLoop(ar, rd, i + 1, score, i)
                  ELSE BestLoop(ar, rd, i + 1, highest_score, best_index)

EmptyActive == "Empty active rule set"
NoneActivated == "No rule was activated"

\* getBestDecision without the test for an empty active_rules
BestDecision_no_empty_test(ar, rd) ==
  LET r == BestLoop(ar, rd, 1, Rat(0), 1)
  IN IF IsZero(r.highest_score)
     THEN [status |-> NoneActivated, index |-> 0, evaluated |-> r.evaluated]
     ELSE [status |-> "ok", index |-> r.best_index, evaluated |-> r.evaluated]

\* getBestDecision throwing the other exception when nothing scored above 0
BestDecision_wrong_exception(ar, rd) ==
  IF ar = <<>>
  THEN [status |-> EmptyActive, index |-> 0, evaluated |-> 0]
  ELSE LET r == BestLoop(ar, rd, 1, Rat(0), 1)
       IN IF IsZero(r.highest_score)
          THEN [status |-> EmptyActive, index |-> 0, evaluated |-> r.evaluated]
          ELSE [status |-> "ok", index |-> r.best_index, evaluated |-> r.evaluated]

\* getBestDecision without "if (!highest_score) throw" (as in the older
\* revision, src/DecisionEngine.h:471-493): the front candidate is returned
BestDecision_no_throw(ar, rd) ==
  IF ar = <<>>
  THEN [status |-> EmptyActive, index |-> 0, evaluated |-> 0]
  ELSE LET r == BestLoop(ar, rd, 1, Rat(0), 1)
       IN [status |-> "ok", index |-> r.best_index, evaluated |-> r.evaluated]

\* DecisionEngine::getBestDecision on the flushed candidates: how it ends, the
\* position of the Decision it returns, and how many candidates it scored
BestDecision(ar, rd) ==
  IF ar = <<>>
  THEN [status |-> EmptyActive, index |-> 0, evaluated |-> 0]
  ELSE LET r == BestLoop(ar, rd, 1, Rat(0), 1)
       IN IF IsZero(r.highest_score)
          THEN [status |-> NoneActivated, index |-> 0, evaluated |-> r.evaluated]
          ELSE [status |-> "ok", index |-> r.best_index, evaluated |-> r.evaluated]

\* a getBestDecision that unloads the candidates it did not score
getBestDecision_drops_pruned(rd) ==
  /\ rules' = FlushedRules
  /\ active_rules' = SubSeq(FlushedActive, 1, BestDecision(FlushedActive, rd).evaluated)
  /\ updated_events' = {}
  /\ UNCHANGED <<active_events, added>>
  /\ LET b == BestDecision(FlushedActive, rd)
     IN last' = Outcome(b.status, b.index)
  /\ op' = Op("getBestDecision")
  /\ UNCHANGED call

getBestDecision(rd) ==
  /\ rules' = FlushedRules
  /\ active_rules' = FlushedActive
  /\ updated_events' = {}
  /\ UNCHANGED <<active_events, added>>
  /\ LET b == BestDecision(FlushedActive, rd)
     IN last' = Outcome(b.status, b.index)
  /\ op' = Op("getBestDecision")
  /\ UNCHANGED call

\* an execute that invokes the Action first and stamps the Decision afterwards
execute_action_first(d) ==
  [decision |-> [d EXCEPT !.executed = TRUE], passed |-> d]

\* Decision::execute: execution_timestamp = now(); action(*this);
\* the Decision as it is afterwards, and as the Action was passed it
execute(d) ==
  LET stamped == [d EXCEPT !.executed = TRUE]
  IN [decision |-> stamped, passed |-> stamped]

\* executeBestDecision, with the Decisions the Actions that ran were passed
ExecuteOp(ran) == [name |-> "executeBestDecision", ran |-> ran]

\* an executeBestDecision that runs the Action of the front candidate when
\* getBestDecision throws
executeBestDecision_on_failure(rd) ==
  /\ rules' = FlushedRules
  /\ updated_events' = {}
  /\ UNCHANGED <<active_events, added>>
  /\ LET b == BestDecision(FlushedActive, rd)
         i == IF b.status = "ok" THEN b.index ELSE 1
     IN /\ last' = Outcome(b.status, b.index)
        /\ IF FlushedActive # <<>>
           THEN /\ active_rules' =
                     [FlushedActive EXCEPT ![i].decision = execute(@).decision]
                /\ op' = ExecuteOp(<<execute(FlushedActive[i].decision).passed>>)
           ELSE /\ active_rules' = FlushedActive
                /\ op' = ExecuteOp(<<>>)
  /\ UNCHANGED call

\* getBestDecision()->execute(): nothing is executed when getBestDecision throws
executeBestDecision(rd) ==
  /\ rules' = FlushedRules
  /\ updated_events' = {}
  /\ UNCHANGED <<active_events, added>>
  /\ LET b == BestDecision(FlushedActive, rd)
     IN /\ last' = Outcome(b.status, b.index)
        /\ IF b.status = "ok"
           THEN /\ active_rules' =
                     [FlushedActive EXCEPT ![b.index].decision = execute(@).decision]
                /\ op' = ExecuteOp(<<execute(FlushedActive[b.index].decision).passed>>)
           ELSE /\ active_rules' = FlushedActive
                /\ op' = ExecuteOp(<<>>)
  /\ UNCHANGED call

Next ==
  \/ \E u \in Tiers, e \in EventLists, k \in 0..MaxCons : addDecision(u, e, k) /\ UNCHANGED <<trip, activation_graph>>
  \/ \E e \in Events : raiseEvent(e) /\ UNCHANGED <<trip, activation_graph>>
  \/ \E e \in Events : clearEvent(e) /\ UNCHANGED <<trip, activation_graph>>
  \/ clearActive /\ UNCHANGED <<trip, activation_graph>>
  \/ clear /\ UNCHANGED <<trip, activation_graph>>
  \/ \E rd \in Readings(FlushedActive) : getBestDecision(rd) /\ UNCHANGED <<trip, activation_graph>>
  \/ \E rd \in Readings(FlushedActive) : executeBestDecision(rd) /\ UNCHANGED <<trip, activation_graph>>

Spec == Init /\ [][Next]_vars

----------------------------------------------------------------------------
(* Properties *)

\* the composite score of the candidate at position i under the readings rd
ScoreAt(ar, rd, i) == computeScore(ar[i].decision, rd[ar[i].decision.name])

\* a full scan: the earliest position whose score no other position exceeds
NaiveBest(ar, rd) ==
  CHOOSE i \in 1..Len(ar) :
    /\ \A j \in 1..Len(ar) : ~Less(ScoreAt(ar, rd, i), ScoreAt(ar, rd, j))
    /\ \A j \in 1..(i - 1) : Less(ScoreAt(ar, rd, j), ScoreAt(ar, rd, i))

SortedByTier(ar) ==
  \A i, j \in 1..Len(ar) : i < j => ar[i].decision.utility >= ar[j].decision.utility

\* a query has just returned or thrown
Queried == last.status # "none"

\* every Decision registered so far has at least one Consideration
AllHaveConsiderations ==
  /\ \A e \in Events : \A i \in 1..Len(rules[e]) : rules[e][i].ncons >= 1
  /\ \A j \in 1..Len(active_rules) : active_rules[j].decision.ncons >= 1

\* C1: in every reachable state with candidates, for all sensor readings under
\* which some candidate scores above 0, getBestDecision returns the candidate
\* a full scan of active_rules finds: the earliest one with the maximum score.
C1_BestIsNaiveBest ==
  \A rd \in Readings(FlushedActive) :
    LET ar == FlushedActive
    IN (ar # <<>> /\ \E i \in 1..Len(ar) : ~IsZero(ScoreAt(ar, rd, i)))
         => BestDecision(ar, rd).status = "ok"
            /\ BestDecision(ar, rd).index = NaiveBest(ar, rd)

\* C1 witness: getBestDecision returned a candidate that is not the first, of
\* a lower tier than the first.
C1_Witness ==
  /\ last.status = "ok"
  /\ last.index > 1
  /\ active_rules[last.index].decision.utility < active_rules[1].decision.utility

\* C2: whatever addDecision and raiseEvent calls (and the other operations) did,
\* active_rules is sorted non-increasingly by tier.
C2_ActiveSortedByTier == SortedByTier(active_rules)

\* C2 witness: two candidates of different tiers, the one added later in front.
C2_Witness ==
  /\ Len(active_rules) >= 2
  /\ active_rules[1].decision.utility > active_rules[2].decision.utility
  /\ active_rules[1].decision.name > active_rules[2].decision.name

\* C3: a getBestDecision call that finds active_rules empty throws
\* "Empty active rule set" and returns no Decision, whatever rules holds.
C3_EmptyActiveThrows ==
  (Queried /\ active_rules = <<>>) => (last.status = EmptyActive /\ last.index = 0)

\* C3 witness: the call threw "Empty active rule set" while rules holds Decisions.
C3_Witness ==
  /\ last.status = EmptyActive
  /\ \E e \in Events : rules[e] # <<>>

\* C4: with candidates present, if every candidate that getBestDecision scores
\* has score 0 (also when it scores none, all being Ignore), the call throws
\* "No rule was activated".
C4_AllZeroThrows ==
  \A rd \in Readings(FlushedActive) :
    LET ar == FlushedActive
        b  == BestDecision(ar, rd)
    IN (ar # <<>> /\ \A i \in 1..b.evaluated : IsZero(ScoreAt(ar, rd, i)))
         => (b.status = NoneActivated /\ b.index = 0)

\* C4 witness: the call threw "No rule was activated" with a candidate of a
\* tier above Ignore in front.
C4_Witness ==
  /\ last.status = NoneActivated
  /\ active_rules # <<>>
  /\ active_rules[1].decision.utility # Ignore

\* C5: every candidate's event is active, and a query made while no event is
\* active throws "Empty active rule set".
C5_EventGating ==
  /\ \A i \in 1..Len(active_rules) : active_rules[i].event \in active_events
  /\ (Queried /\ active_events = {}) => last.status = EmptyActive

\* C5 witness: Decisions are registered under Penalized only, Penalized is not
\* active, and the query threw "Empty active rule set".
C5_Witness ==
  /\ rules[Penalized] # <<>>
  /\ rules[Always] = <<>>
  /\ active_events = {}
  /\ last.status = EmptyActive

\* C6: the Decision getBestDecision returns never has tier Ignore.
C6_NeverReturnsIgnore ==
  last.status = "ok" => active_rules[last.index].decision.utility # Ignore

\* C6 witness: a Decision was returned while a candidate of tier Ignore was active.
C6_Witness ==
  /\ last.status = "ok"
  /\ \E i \in 1..Len(active_rules) : active_rules[i].decision.utility = Ignore

C8_AddedToActiveEventIsLoaded ==
  (Queried /\ AllHaveConsiderations) =>
    \A e \in active_events : \A i \in 1..Len(rules[e]) :
      \E j \in 1..Len(active_rules) :
        /\ active_rules[j].event = e
        /\ active_rules[j].decision.name = rules[e][i].name

\* C9: a candidate that has been executed is the Decision held in rules under
\* its event: that Decision reports the execution too (stated for Decisions
\* that have Considerations, as C8).
C9_ExecutionRecordedInRules ==
  \A j \in 1..Len(active_rules) :
    (AllHaveConsiderations /\ ~isNeverExecuted(active_rules[j].decision)) =>
      \E i \in 1..Len(rules[active_rules[j].event]) :
        /\ rules[active_rules[j].event][i].name = active_rules[j].decision.name
        /\ ~isNeverExecuted(rules[active_rules[j].event][i])

\* C10: no Decision without Considerations is ever registered, and none is
\* ever a candidate.
C10_NoDecisionWithoutConsiderations == AllHaveConsiderations

\* the entries of ar tagged with event e
TaggedWith(ar, e) == SelectSeq(ar, LAMBDA r : r.event = e)

\* no Decision of a bucket sits twice in ar under the same event
NoDuplicateEntries(ar) ==
  \A i, j \in 1..Len(ar) :
    (ar[i].event = ar[j].event /\ ar[i].decision.name = ar[j].decision.name) => i = j

\* C11: raiseEvent(e) on an event that is already active leaves active_rules and
\* active_events as the first raiseEvent(e) left them, and active_rules never
\* holds the same Decision twice under one event.
C11_RaiseIsIdempotent ==
  [][ /\ NoDuplicateEntries(active_rules')
      /\ (op'.name = "raiseEvent" /\ op'.active) =>
            (active_rules' = active_rules /\ active_events' = active_events) ]_vars

\* a second raiseEvent(e) has run while the Decisions of rules[e] were loaded
C11_Witness ==
  /\ op.name = "raiseEvent"
  /\ op.active
  /\ rules[op.event] # <<>>
  /\ Len(TaggedWith(active_rules, op.event)) = Len(rules[op.event])

\* the Decisions of the entries of ar tagged with e, in order
LoadedFrom(ar, e) == [i \in 1..Len(TaggedWith(ar, e)) |-> TaggedWith(ar, e)[i].decision]

\* C12: clearEvent(e) removes exactly the entries tagged e, keeping the others
\* in order, removes e from active_events and nothing else, and leaves rules
\* alone; a raiseEvent(e) on the then inactive event loads rules[e] again.
C12_ClearEventFrame ==
  [][ /\ op'.name = "clearEvent" =>
            /\ active_rules' = SelectSeq(active_rules, LAMBDA r : r.event # op'.event)
            /\ TaggedWith(active_rules', op'.event) = <<>>
            /\ \A f \in Events \ {op'.event} :
                  TaggedWith(active_rules', f) = TaggedWith(active_rules, f)
            /\ active_events' = active_events \ {op'.event}
            /\ rules' = rules
      /\ (op'.name = "raiseEvent" /\ ~op'.active) =>
            /\ LoadedFrom(active_rules', op'.event) = rules'[op'.event]
            /\ op'.event \in active_events' ]_vars

\* clearEvent(e) has removed the loaded Decisions of e and left another event's
C12_Witness ==
  /\ op.name = "clearEvent"
  /\ op.active
  /\ rules[op.event] # <<>>
  /\ active_rules # <<>>
  /\ active_events # {}

\* the engine's own state
engine == <<rules, active_rules, active_events, updated_events>>

\* C13: clearEvent(e) leaves e inactive, and clearEvent(e) on an inactive event
\* changes nothing in the engine, so a second clearEvent(e) is a no-op.
C13_ClearEventIdempotent ==
  [][ op'.name = "clearEvent" =>
        /\ op'.event \notin active_events'
        /\ ~op'.active => engine' = engine ]_vars

\* clearEvent(e) has run on an inactive event while Decisions of another event
\* were loaded
C13_Witness ==
  /\ op.name = "clearEvent"
  /\ ~op.active
  /\ rules[op.event] # <<>>
  /\ active_rules # <<>>

RulesEmpty == \A e \in Events : rules[e] = <<>>

\* C14: clear() leaves rules and active_rules empty, and from then on, as long
\* as no addDecision is called, they stay empty whatever is raised and every
\* query fails with "Empty active rule set".
C14_NothingLoadedAfterClear ==
  [][ /\ op'.name = "clear" => (RulesEmpty' /\ active_rules' = <<>>)
      /\ (RulesEmpty /\ active_rules = <<>> /\ op'.name # "addDecision") =>
            /\ RulesEmpty'
            /\ active_rules' = <<>>
            /\ op'.name \in {"getBestDecision", "executeBestDecision"} =>
                  last'.status = EmptyActive ]_vars

\* Decisions were added, clear() dropped them, an event was raised and the
\* query failed
C14_Witness ==
  /\ op.name = "getBestDecision"
  /\ last.status = EmptyActive
  /\ added > 0
  /\ RulesEmpty
  /\ active_events # {}

\* the tier of the candidate at position i
TierAt(ar, i) == ar[i].decision.utility

\* the candidates at i and j are of one tier and score exactly the same
Tied(ar, rd, i, j) ==
  /\ TierAt(ar, i) = TierAt(ar, j)
  /\ Equal(ScoreAt(ar, rd, i), ScoreAt(ar, rd, j))

\* C16 as stated: of the candidates of one tier that share the maximum score,
\* getBestDecision returns the one addDecision registered first (the smallest
\* name), whatever the order in which their events were raised.
C16_TieGoesToEarlierAdded ==
  AllHaveConsiderations =>
    \A rd \in Readings(FlushedActive) :
      LET ar == FlushedActive
          b  == BestDecision(ar, rd)
      IN b.status = "ok" =>
           \A j \in 1..Len(ar) :
             Tied(ar, rd, b.index, j) => ar[b.index].decision.name <= ar[j].decision.name

\* C16 amended: of the candidates that share the maximum score, getBestDecision
\* returns the one standing first in active_rules; candidates of one tier
\* loaded under the same event stand in the order of their addDecision calls.
C16_TieGoesToEarlierPosition ==
  /\ \A rd \in Readings(FlushedActive) :
       LET ar == FlushedActive
           b  == BestDecision(ar, rd)
       IN b.status = "ok" =>
            \A j \in 1..Len(ar) :
              Equal(ScoreAt(ar, rd, b.index), ScoreAt(ar, rd, j)) => b.index <= j
  /\ \A i, j \in 1..Len(FlushedActive) :
       LET ar == FlushedActive
       IN (i < j /\ ar[i].event = ar[j].event /\ TierAt(ar, i) = TierAt(ar, j))
            => ar[i].decision.name < ar[j].decision.name

\* a query returned the Decision added later, tied at the maximum with one of
\* the same tier that was added earlier under an event raised later
C16_Witness ==
  /\ last.status = "ok"
  /\ AllHaveConsiderations
  /\ \E rd \in Readings(active_rules) :
       /\ BestDecision(active_rules, rd).index = last.index
       /\ \E j \in 1..Len(active_rules) :
            /\ j > last.index
            /\ Tied(active_rules, rd, last.index, j)
            /\ active_rules[j].decision.name < active_rules[last.index].decision.name
            /\ active_rules[j].event # active_rules[last.index].event

\* C17 as stated: once a scored candidate's score equals its tier, no later
\* candidate is scored, whether or not that score exceeds the best so far.
C17_SaturationStopsTheLoop ==
  AllHaveConsiderations =>
    \A rd \in Readings(FlushedActive) :
      LET ar == FlushedActive
          b  == BestDecision(ar, rd)
      IN \A i \in 1..b.evaluated :
           Equal(ScoreAt(ar, rd, i), Rat(TierAt(ar, i))) => b.evaluated = i

\* the highest score among the candidates before position i, 0 if there is none
BestBefore(ar, rd, i) ==
  IF i = 1 THEN Rat(0)
  ELSE LET m == CHOOSE m \in 1..(i - 1) :
                  \A j \in 1..(i - 1) : ~Less(ScoreAt(ar, rd, m), ScoreAt(ar, rd, j))
       IN ScoreAt(ar, rd, m)

\* the candidate at position i is one the loop prunes
Pruned(ar, rd, i) ==
  TierAt(ar, i) = Ignore \/ Less(Rat(TierAt(ar, i)), BestBefore(ar, rd, i))

\* C18: no candidate the query scores is of tier Ignore or of a tier below the
\* best score found before it, and none stands behind such a candidate.
C18_PrunedNeverScored ==
  \A rd \in Readings(FlushedActive) :
    LET ar == FlushedActive
        b  == BestDecision(ar, rd)
    IN \A i \in 1..b.evaluated : \A j \in 1..i : ~Pruned(ar, rd, j)

\* a query stopped in front of a candidate of a tier below the best score,
\* though the last candidate it scored was not saturated
C18_Witness ==
  /\ last.status = "ok"
  /\ \E rd \in Readings(active_rules) :
       LET b == BestDecision(active_rules, rd)
       IN /\ b.index = last.index
          /\ b.evaluated < Len(active_rules)
          /\ TierAt(active_rules, b.evaluated + 1) # Ignore
          /\ Pruned(active_rules, rd, b.evaluated + 1)
          /\ ~Equal(ScoreAt(active_rules, rd, b.evaluated), Rat(TierAt(active_rules, b.evaluated)))

-----------------------------------------------------------------------------
(* Decision::computeScore on its own *)

\* one call of computeScore on a Decision of tier u whose Considerations
\* score scores[1], ..., scores[k], each a multiple of 1/Grid in [0, 1]
ScoreCall(u, scores) ==
  /\ call' = [fn |-> "computeScore", utility |-> u, scores |-> scores,
              out |-> computeScore(Decision(1, u, Len(scores)), scores),
              invoked |-> Invoked(Decision(1, u, Len(scores)), scores)]
  /\ UNCHANGED <<rules, active_rules, active_events, updated_events, added, last, op, trip,
               activation_graph>>

NextScore ==
  \E u \in UtilityScore, k \in 1..MaxK : \E scores \in ConsScores(k) : ScoreCall(u, scores)

SpecScore == Init /\ [][NextScore]_vars

\* C19: computeScore of a Decision of tier T with k >= 1 Considerations scoring
\* in [0, 1] returns a value s with 0 <= s <= T, and every factor
\* score + (1 - score) * (1 - 1/k) * score lies in [0, 1].
C19_ScoreWithinTier ==
  call.fn = "computeScore" =>
    /\ ~Less(call.out, Rat(0))
    /\ ~Less(Rat(call.utility), call.out)
    /\ \A i \in 1..Len(call.scores) :
         LET adj == Adjusted(call.scores[i], Len(call.scores))
         IN 0 <= adj[1] /\ adj[1] <= adj[2]

\* a Decision with MaxK Considerations, all scoring strictly between 0 and 1,
\* scored strictly between 0 and its tier
C19_Witness ==
  /\ call.fn = "computeScore"
  /\ Len(call.scores) = MaxK
  /\ \A i \in 1..MaxK : 0 < call.scores[i] /\ call.scores[i] < Grid
  /\ Less(Rat(0), call.out)
  /\ Less(call.out, Rat(call.utility))

-----------------------------------------------------------------------------
(* Registering the same Decisions again after clear() *)

\* the arguments of one addDecision call
Registration == [utility : Tiers, events : EventLists, ncons : 0..MaxCons]

\* the sequences of addDecision calls S
Scripts == UNION {[1..n -> Registration] : n \in 1..MaxDecisions}

\* the events raised afterwards, in the order they are raised
EventOrders == {<<>>} \cup EventLists

\* the caller settles on the calls S and on the events to raise
Choose(S, es) ==
  /\ trip.phase = "none"
  /\ UNCHANGED activation_graph
  /\ trip' = [phase |-> "fresh", script |-> S, events |-> es, again |-> 0, fresh |-> <<>>]
  /\ UNCHANGED <<rules, active_rules, active_events, updated_events, added, last, op, call>>

\* S, one call at a time, on an engine that holds nothing yet
TripAdd ==
  /\ trip.phase \in {"fresh", "first"}
  /\ added < Len(trip.script)
  /\ LET r == trip.script[added + 1] IN addDecision(r.utility, r.events, r.ncons)
  /\ UNCHANGED <<trip, activation_graph>>

\* the chosen events, one at a time, once S has run
TripRaise ==
  /\ \/ trip.phase = "fresh" /\ added = Len(trip.script)
     \/ trip.phase = "again" /\ trip.again = Len(trip.script)
  /\ Cardinality(active_events) < Len(trip.events)
  /\ raiseEvent(trip.events[Cardinality(active_events) + 1])
  /\ UNCHANGED <<trip, activation_graph>>

\* the candidates of the engine that ran S once are kept aside, and a second
\* engine is constructed
Rebuild ==
  /\ trip.phase = "fresh"
  /\ added = Len(trip.script)
  /\ Cardinality(active_events) = Len(trip.events)
  /\ UNCHANGED activation_graph
  /\ trip' = [trip EXCEPT !.phase = "first", !.fresh = FlushedActive]
  /\ rules' = [e \in Events |-> <<>>]
  /\ active_rules' = <<>>
  /\ active_events' = {}
  /\ updated_events' = {}
  /\ added' = 0
  /\ last' = Nothing
  /\ op' = Op("construct")
  /\ UNCHANGED call

\* clear() on the second engine once S has run on it
TripClear ==
  /\ trip.phase = "first"
  /\ added = Len(trip.script)
  /\ clear
  /\ UNCHANGED activation_graph
  /\ trip' = [trip EXCEPT !.phase = "again"]

\* S again, with the arguments of the first time, names included
TripAddAgain ==
  /\ trip.phase = "again"
  /\ trip.again < Len(trip.script)
  /\ LET r == trip.script[trip.again + 1]
     IN Register(trip.again + 1, r.utility, r.events, r.ncons)
  /\ UNCHANGED added
  /\ UNCHANGED activation_graph
  /\ trip' = [trip EXCEPT !.again = @ + 1]

NextTrip ==
  \/ \E S \in Scripts, es \in EventOrders : Choose(S, es)
  \/ TripAdd
  \/ TripRaise
  \/ Rebuild
  \/ TripClear
  \/ TripAddAgain

SpecTrip == Init /\ [][NextTrip]_vars

\* the second engine has run S; clear(); S and raised the events
TripDone ==
  /\ trip.phase = "again"
  /\ trip.again = Len(trip.script)
  /\ Cardinality(active_events) = Len(trip.events)

\* what getBestDecision gives on the candidates ar: the name of the Decision
\* it returns, or the exception it throws
Result(ar, rd) ==
  LET b == BestDecision(ar, rd)
  IN IF b.status = "ok" THEN <<"ok", ar[b.index].decision.name>> ELSE <<b.status, 0>>

\* C15: the engine that ran S; clear(); S and raised the events holds the
\* candidates the engine that ran S once and raised the same events holds, and
\* under any sensor readings getBestDecision gives the same on both: the same
\* Decision or the same exception.
C15_ReRegistrationRoundTrip ==
  TripDone =>
    /\ FlushedActive = trip.fresh
    /\ \A rd \in Readings(trip.fresh) : Result(FlushedActive, rd) = Result(trip.fresh, rd)

\* the round trip is complete, two Decisions of different tiers were registered
\* in ascending order of tier, and both are candidates
C15_Witness ==
  /\ TripDone
  /\ Len(trip.script) = 2
  /\ trip.script[1].utility < trip.script[2].utility
  /\ trip.script[1].ncons >= 1
  /\ ActiveNames(active_rules) = {1, 2}
  /\ \E rd \in Readings(active_rules) : Result(active_rules, rd) = <<"ok", 1>>

-----------------------------------------------------------------------------
(* float values: n/d with d > 0, and +inf, -inf, NaN as 1/0, -1/0, 0/0 *)

XNaN == <<0, 0>>
X(n) == <<n, 1>>

Sgn(n) == IF n > 0 THEN 1 ELSE IF n < 0 THEN 0 - 1 ELSE 0
Abs(n) == IF n < 0 THEN 0 - n ELSE n

RECURSIVE GCD(_, _)
GCD(a, b) == IF b = 0 THEN a ELSE GCD(b, a % b)

\* the value n/d in lowest terms with d >= 0
Norm(n, d) ==
  IF d = 0 THEN <<Sgn(n), 0>>
  ELSE LET g == GCD(Abs(n), Abs(d))
       IN <<(Sgn(d) * n) \div g, Abs(d) \div g>>

IsNaN(p) == p = XNaN
IsInf(p) == p[2] = 0 /\ p[1] # 0

XAdd(p, q) ==
  IF p[2] = 0 /\ q[2] = 0
  THEN IF p = q THEN p ELSE XNaN
  ELSE Norm(p[1] * q[2] + q[1] * p[2], p[2] * q[2])

XNeg(p) == <<0 - p[1], p[2]>>
XSub(p, q) == XAdd(p, XNeg(q))
XMul(p, q) == Norm(p[1] * q[1], p[2] * q[2])
\* a zero divisor is the +0 a difference of equal floats gives
XDiv(p, q) == Norm(p[1] * q[2] * (IF q[1] < 0 THEN 0 - 1 ELSE 1), p[2] * Abs(q[1]))

\* p < q and p <= q as the floats compare: false when either is NaN
XLess(p, q) ==
  /\ ~IsNaN(p)
  /\ ~IsNaN(q)
  /\ IF p[2] = 0 /\ q[2] = 0 THEN p[1] < q[1] ELSE p[1] * q[2] < q[1] * p[2]

XLeq(p, q) == ~IsNaN(p) /\ ~IsNaN(q) /\ (p = q \/ XLess(p, q))

-----------------------------------------------------------------------------
(* Spline: control points are a sequence of [x, y], positions counted from 1 *)

PX(points, i) == X(points[i].x)
PY(points, i) == X(points[i].y)

\* the first i with x >= a.x && x <= b.x, or 0 when the for loop finds none
Segment(points, x) ==
  LET hits == {i \in 1..(Len(points) - 1) :
                 XLeq(PX(points, i), x) /\ XLeq(x, PX(points, i + 1))}
  IN IF hits = {} THEN 0 ELSE CHOOSE i \in hits : \A j \in hits : i <= j

\* Linear without "if (x <= points.front().x) return points.front().y"
Linear_no_front_test(points, x) ==
  IF XLeq(PX(points, Len(points)), x) THEN PY(points, Len(points))
  ELSE LET i == Segment(points, x)
       IN IF i = 0 THEN PY(points, Len(points))
          ELSE LET interpolation ==
                     XDiv(XSub(x, PX(points, i)), XSub(PX(points, i + 1), PX(points, i)))
               IN XAdd(XMul(XSub(X(1), interpolation), PY(points, i)),
                       XMul(interpolation, PY(points, i + 1)))

Linear(points, x) ==
  IF XLeq(x, PX(points, 1)) THEN PY(points, 1)
  ELSE IF XLeq(PX(points, Len(points)), x) THEN PY(points, Len(points))
  ELSE LET i == Segment(points, x)
       IN IF i = 0 THEN PY(points, Len(points))
          ELSE LET interpolation ==
                     XDiv(XSub(x, PX(points, i)), XSub(PX(points, i + 1), PX(points, i)))
               IN XAdd(XMul(XSub(X(1), interpolation), PY(points, i)),
                       XMul(interpolation, PY(points, i + 1)))

StepBefore(points, x) ==
  IF XLeq(x, PX(points, 1)) THEN PY(points, 1)
  ELSE IF XLeq(PX(points, Len(points)), x) THEN PY(points, Len(points))
  ELSE LET i == Segment(points, x)
       IN IF i = 0 THEN PY(points, Len(points)) ELSE PY(points, i + 1)

StepAfter(points, x) ==
  IF XLeq(x, PX(points, 1)) THEN PY(points, 1)
  ELSE IF XLeq(PX(points, Len(points)), x) THEN PY(points, Len(points))
  ELSE LET i == Segment(points, x)
       IN IF i = 0 THEN PY(points, Len(points)) ELSE PY(points, i)

\* the vectors Monotone fills when the spline is built; entry i of the model
\* is entry i - 1 of the code
deltaXs(points) ==
  [i \in 1..(Len(points) - 1) |-> XSub(PX(points, i + 1), PX(points, i))]

slopes(points) ==
  [i \in 1..(Len(points) - 1) |->
     XDiv(XSub(PY(points, i + 1), PY(points, i)), deltaXs(points)[i])]

coefficients1(points) ==
  LET count == Len(points) - 1
      dxs   == deltaXs(points)
      sl    == slopes(points)
  IN [i \in 1..(count + 1) |->
        IF i = count + 1 THEN sl[count]
        ELSE IF i = 1 THEN sl[1]
        ELSE LET slope     == sl[i - 1]
                 slopeNext == sl[i]
             IN IF XLeq(XMul(slope, slopeNext), X(0))
                THEN X(0)
                ELSE LET dx     == dxs[i - 1]
                         dxNext == dxs[i]
                         common == XAdd(dx, dxNext)
                     IN XDiv(XMul(X(3), common),
                             XAdd(XDiv(XAdd(common, dxNext), slope),
                                  XDiv(XAdd(common, dx), slopeNext)))]

coefficients2(points) ==
  LET c1s == coefficients1(points)
      sl  == slopes(points)
  IN [i \in 1..(Len(points) - 1) |->
        LET invDx  == XDiv(X(1), deltaXs(points)[i])
            common == XSub(XAdd(c1s[i], c1s[i + 1]), XMul(X(2), sl[i]))
        IN XMul(XSub(XSub(sl[i], c1s[i]), common), invDx)]

coefficients3(points) ==
  LET c1s == coefficients1(points)
      sl  == slopes(points)
  IN [i \in 1..(Len(points) - 1) |->
        LET invDx  == XDiv(X(1), deltaXs(points)[i])
            common == XSub(XAdd(c1s[i], c1s[i + 1]), XMul(X(2), sl[i]))
        IN XMul(XMul(common, invDx), invDx)]

\* the loop with "while (low < high)" for "while (low <= high)"
RECURSIVE Search_strict(_, _, _, _)
Search_strict(points, x, low, high) ==
  IF low >= high THEN [end |-> "segment", at |-> high]
  ELSE LET mid   == (low + high) \div 2
           xHere == PX(points, mid + 1)
       IN IF XLess(xHere, x) THEN Search_strict(points, x, mid + 1, high)
          ELSE IF XLess(x, xHere)
               THEN IF mid = 0 THEN [end |-> "wrapped", at |-> 0]
                    ELSE Search_strict(points, x, low, mid - 1)
               ELSE [end |-> "point", at |-> mid]

\* the while loop of Monotone, low, mid and high as in the code (from 0):
\* it ends on a control point, with a segment index, or with high wrapped
\* around below 0
RECURSIVE Search(_, _, _, _)
Search(points, x, low, high) ==
  IF low > high THEN [end |-> "segment", at |-> high]
  ELSE LET mid   == (low + high) \div 2
           xHere == PX(points, mid + 1)
       IN IF XLess(xHere, x) THEN Search(points, x, mid + 1, high)
          ELSE IF XLess(x, xHere)
               THEN IF mid = 0 THEN [end |-> "wrapped", at |-> 0]
                    ELSE Search(points, x, low, mid - 1)
               ELSE [end |-> "point", at |-> mid]

\* the values Monotone may return: one value, or any float once the index has
\* wrapped around and the loop reads outside the vector
Monotone(points, x) ==
  IF XLeq(x, PX(points, 1)) THEN {PY(points, 1)}
  ELSE IF XLeq(PX(points, Len(points)), x) THEN {PY(points, Len(points))}
  ELSE LET r == Search(points, x, 0, Len(points) - 2)
       IN IF r.end = "wrapped" THEN {XNaN, X(0 - 1), X(0), X(2)}
          ELSE IF r.end = "point" THEN {PY(points, r.at + 1)}
          ELSE LET i      == r.at + 1
                   diff   == XSub(x, PX(points, i))
                   diffSq == XMul(diff, diff)
               IN {XAdd(XAdd(XAdd(PY(points, i), XMul(coefficients1(points)[i], diff)),
                             XMul(coefficients2(points)[i], diffSq)),
                        XMul(XMul(coefficients3(points)[i], diff), diffSq))}

SplineKinds == {"Linear", "StepBefore", "StepAfter", "Monotone"}

\* the values spline_(x) may return for a spline of the given kind
Spline(kind, points, x) ==
  CASE kind = "Linear"     -> {Linear(points, x)}
    [] kind = "StepBefore" -> {StepBefore(points, x)}
    [] kind = "StepAfter"  -> {StepAfter(points, x)}
    [] kind = "Monotone"   -> Monotone(points, x)

-----------------------------------------------------------------------------
(* Consideration::computeScore *)

scale(value, min, max) == XDiv(XSub(value, min), XSub(max, min))

clip(value) ==
  IF XLess(X(1), value) THEN X(1)
  ELSE IF XLess(value, X(0)) THEN X(0)
  ELSE value

\* the control points, the input ranges and the sensor readings tried
P2 == [x : 0..MaxX, y : (0 - 1)..MaxY]
PointLists == UNION {[1..n -> P2] : n \in 2..MaxPoints}
Ranges == {<<0, 2>>, <<1, 2>>}
SensorValues == (0 - 1)..(2 * MaxX + 1)

Considerations ==
  [fn : {"Consideration"}, kind : SplineKinds, points : PointLists,
   range : Ranges, value : SensorValues, out : {X(0)}]

\* a Consideration and a sensor reading, before computeScore is called
InitCons ==
  /\ rules = [e \in Events |-> <<>>]
  /\ active_rules = <<>>
  /\ active_events = {}
  /\ updated_events = {}
  /\ added = 0
  /\ last = Nothing
  /\ op = Op("construct")
  /\ trip = NoTrip
  /\ activation_graph = NoGraph
  /\ call \in Considerations

\* clip(spline_(scale(utilityFunction_(), min_, max_)))
ConsiderationScore ==
  /\ call.fn = "Consideration"
  /\ \E v \in Spline(call.kind, call.points,
                      scale(X(call.value), X(call.range[1]), X(call.range[2]))) :
       call' = [call EXCEPT !.fn = "Consideration::computeScore", !.out = clip(v)]
  /\ UNCHANGED <<rules, active_rules, active_events, updated_events, added, last, op, trip,
               activation_graph>>

NextCons == ConsiderationScore

SpecCons == InitCons /\ [][NextCons]_vars

\* C20 as stated: whatever the spline (two or more control points), the range
\* min < max and the sensor reading, computeScore returns a value in [0, 1].
C20_ConsiderationWithinUnit ==
  call.fn = "Consideration::computeScore" =>
    XLeq(X(0), call.out) /\ XLeq(call.out, X(1))

-----------------------------------------------------------------------------
(* Transform (src/Transform.h) and the Consideration shaped by one *)

\* std::pow(p, n) for an integer exponent n
RECURSIVE XPow(_, _)
XPow(p, n) ==
  IF n = 0 THEN X(1)
  ELSE IF n < 0 THEN XDiv(X(1), XPow(p, 0 - n))
  ELSE XMul(p, XPow(p, n - 1))

\* Transform::scale and Transform::clip are scale and clip of Consideration.h
\* word for word
Binary(threshold, value) == IF XLeq(threshold, value) THEN X(1) ELSE X(0)

Exponential(base, value, min, max) ==
  scale(XPow(X(base), value), XPow(X(base), min), XPow(X(base), max))

Identity(value, min, max) == scale(value, min, max)

Inverted(value, min, max) == XSub(X(1), scale(value, min, max))

LinearTransform(slope, intercept, value, min, max) ==
  clip(XAdd(XMul(slope, scale(value, min, max)), intercept))

Power(power, value, min, max) ==
  scale(XPow(value, power), XPow(min, power), XPow(max, power))

\* the Transform variants with the parameters tried: a is the threshold, the
\* base, the slope or the power, b the intercept
Transforms ==
  {[kind |-> k, a |-> 0, b |-> 0] : k \in {"Identity", "Inverted"}}
    \cup {[kind |-> "Binary", a |-> t, b |-> 0] : t \in SensorValues}
    \cup {[kind |-> "Exponential", a |-> base, b |-> 0] : base \in 1..(MaxY + 1)}
    \cup {[kind |-> "Linear", a |-> sl, b |-> ic] : sl \in (0 - 1)..MaxY, ic \in (0 - 1)..1}
    \cup {[kind |-> "Power", a |-> pw, b |-> 0] : pw \in (0 - 1)..MaxY}

\* transform(value, min, max) for integer value, min and max
Transform(t, value, min, max) ==
  CASE t.kind = "Identity"    -> Identity(X(value), X(min), X(max))
    [] t.kind = "Inverted"    -> Inverted(X(value), X(min), X(max))
    [] t.kind = "Binary"      -> Binary(X(t.a), X(value))
    [] t.kind = "Exponential" -> Exponential(t.a, value, min, max)
    [] t.kind = "Linear"      -> LinearTransform(X(t.a), X(t.b), X(value), X(min), X(max))
    [] t.kind = "Power"       -> Power(t.a, X(value), X(min), X(max))

TransformConsiderations ==
  [fn : {"Transform"}, transform : Transforms, range : Ranges, value : SensorValues,
   out : {X(0)}]

\* a Transform-shaped Consideration and a sensor reading
InitTransform ==
  /\ rules = [e \in Events |-> <<>>]
  /\ active_rules = <<>>
  /\ active_events = {}
  /\ updated_events = {}
  /\ added = 0
  /\ last = Nothing
  /\ op = Op("construct")
  /\ trip = NoTrip
  /\ activation_graph = NoGraph
  /\ call \in TransformConsiderations

\* return transform(utilityFunction(), min, max)
TransformScore ==
  /\ call.fn = "Transform"
  /\ call' = [call EXCEPT !.fn = "Transform::computeScore",
                          !.out = Transform(call.transform, call.value,
                                            call.range[1], call.range[2])]
  /\ UNCHANGED <<rules, active_rules, active_events, updated_events, added, last, op, trip,
               activation_graph>>

NextTransform == TransformScore

SpecTransform == InitTransform /\ [][NextTransform]_vars

\* C21 as stated: whatever the Transform variant, its parameters, the range
\* and the sensor reading, a Transform-shaped Consideration scores in [0, 1].
C21_TransformWithinUnit ==
  call.fn = "Transform::computeScore" =>
    XLeq(X(0), call.out) /\ XLeq(call.out, X(1))

-----------------------------------------------------------------------------
(* Execution *)

\* C22: the Decision an Action is passed is the executing Decision itself,
\* already stamped: inside the Action isNeverExecuted() is false, and name and
\* tier are those of the Decision that getBestDecision returned.
C22_ActionSeesStampedDecision ==
  op.name = "executeBestDecision" =>
    \A i \in 1..Len(op.ran) :
      /\ ~isNeverExecuted(op.ran[i])
      /\ last.status = "ok"
      /\ op.ran[i] = active_rules[last.index].decision

\* an Action ran for one of several candidates, and not for the first
C22_Witness ==
  /\ op.name = "executeBestDecision"
  /\ Len(op.ran) = 1
  /\ last.index > 1
  /\ op.ran[1].name # active_rules[1].decision.name

\* the entries of ar with every Decision marked as never executed
Unstamped(ar) ==
  [i \in 1..Len(ar) |-> [ar[i] EXCEPT !.decision.executed = FALSE]]

\* C23: executeBestDecision ends as getBestDecision does in that state under
\* the same readings; if a Decision is returned, exactly one Action runs, its
\* own, and only its timestamp changes; if getBestDecision throws, no Action
\* runs and no timestamp changes.
C23_ExecutesTheBestOnly ==
  [][ op'.name = "executeBestDecision" =>
        /\ \E rd \in Readings(FlushedActive) :
             LET b == BestDecision(FlushedActive, rd)
             IN last' = Outcome(b.status, b.index)
        /\ rules' = FlushedRules
        /\ IF last'.status = "ok"
           THEN /\ Len(op'.ran) = 1
                /\ op'.ran[1].name = FlushedActive[last'.index].decision.name
                /\ \A i \in 1..Len(FlushedActive) :
                     i # last'.index => active_rules'[i] = FlushedActive[i]
                /\ Unstamped(active_rules') = Unstamped(FlushedActive)
           ELSE /\ op'.ran = <<>>
                /\ active_rules' = FlushedActive ]_vars

\* executeBestDecision failed with "No rule was activated" while candidates
\* were loaded, none of them ever executed
C23_Witness ==
  /\ op.name = "executeBestDecision"
  /\ last.status = NoneActivated
  /\ active_rules # <<>>
  /\ \A i \in 1..Len(active_rules) : isNeverExecuted(active_rules[i].decision)

-----------------------------------------------------------------------------
(* One Decision under several events *)

\* the events the Decision named n is bound under
EventsOf(r, n) == {e \in Events : \E i \in 1..Len(r[e]) : r[e][i].name = n}

\* the positions of ar that hold the Decision named n loaded for event e
EntriesOf(ar, n, e) == {i \in 1..Len(ar) : ar[i].event = e /\ ar[i].decision.name = n}

\* the number of entries of ar for the Decision named n
CountOf(ar, n) == Cardinality({i \in 1..Len(ar) : ar[i].decision.name = n})

\* the Decision named n has one entry for each of its events that is active
\* and none for the others
LoadedPerEvent(r, ar, ae, n) ==
  /\ \A e \in EventsOf(r, n) :
       Cardinality(EntriesOf(ar, n, e)) = (IF e \in ae THEN 1 ELSE 0)
  /\ CountOf(ar, n) = Cardinality(EventsOf(r, n) \cap ae)

\* C24: a Decision added while none of its events is active has, from then on,
\* exactly one entry in active_rules for each of its events that is active:
\* the number of its entries is the number of its active events, whatever is
\* raised or cleared afterwards.
C24_OneEntryPerActiveEvent ==
  [][ \A n \in Names :
        /\ (op'.name = "addDecision" /\ n = added' /\ added' # added
               /\ EventsOf(rules', n) \cap active_events = {})
             => LoadedPerEvent(rules', active_rules', active_events', n)
        /\ (EventsOf(rules, n) # {} /\ EventsOf(rules', n) # {}
               /\ LoadedPerEvent(rules, active_rules, active_events, n))
             => LoadedPerEvent(rules', active_rules', active_events', n) ]_vars

\* a Decision bound under both events was loaded for both, one of the events
\* was cleared, and the Decision is still a candidate through the other
C24_Witness ==
  /\ op.name = "clearEvent"
  /\ op.active
  /\ Cardinality(active_events) = 1
  /\ \E n \in Names :
       /\ EventsOf(rules, n) = Events
       /\ CountOf(active_rules, n) = 1
       /\ LoadedPerEvent(rules, active_rules, active_events, n)

-----------------------------------------------------------------------------
(* A spline on its own *)

\* the arguments the splines are evaluated at: multiples of 1/2 from below
\* the first control point to above the last
SplineArguments == {Norm(v, 2) : v \in SensorValues}

SplineCalls ==
  [fn : {"Spline"}, kind : SplineKinds, points : PointLists, x : SplineArguments,
   out : {X(0)}]

\* a spline built from a list of control points, and an argument
InitSpline ==
  /\ rules = [e \in Events |-> <<>>]
  /\ active_rules = <<>>
  /\ active_events = {}
  /\ updated_events = {}
  /\ added = 0
  /\ last = Nothing
  /\ op = Op("construct")
  /\ trip = NoTrip
  /\ activation_graph = NoGraph
  /\ call \in SplineCalls

\* spline(x)
SplineCall ==
  /\ call.fn = "Spline"
  /\ \E v \in Spline(call.kind, call.points, call.x) :
       call' = [call EXCEPT !.fn = "Spline::operator()", !.out = v]
  /\ UNCHANGED <<rules, active_rules, active_events, updated_events, added, last, op, trip,
               activation_graph>>

NextSpline == SplineCall

SpecSpline == InitSpline /\ [][NextSpline]_vars

Evaluated == call.fn = "Spline::operator()"

StrictlyIncreasing(points) ==
  \A i \in 1..(Len(points) - 1) : points[i].x < points[i + 1].x

DistinctX(points) ==
  \A i, j \in 1..Len(points) : points[i].x = points[j].x => i = j

\* the control points in the order of increasing x (their x being distinct)
SortedByX(points) ==
  [i \in 1..Len(points) |->
     points[CHOOSE j \in 1..Len(points) :
              Cardinality({k \in 1..Len(points) : points[k].x < points[j].x}) = i - 1]]

\* C25 as stated: a StepBefore or StepAfter spline over strictly increasing x,
\* evaluated at the x of a control point, returns the y of that control point.
C25_StepThroughControlPoints ==
  (Evaluated /\ call.kind \in {"StepBefore", "StepAfter"} /\ StrictlyIncreasing(call.points)) =>
    \A i \in 1..Len(call.points) :
      call.x = PX(call.points, i) => call.out = PY(call.points, i)

\* C26 as stated: a Linear, StepBefore or StepAfter spline built from control
\* points with distinct x in any order evaluates as the spline built from the
\* same points sorted by increasing x.
C26_ConstructionSorts ==
  (Evaluated /\ call.kind # "Monotone" /\ DistinctX(call.points)) =>
    call.out \in Spline(call.kind, SortedByX(call.points), call.x)

\* C27: every spline over control points with strictly increasing x returns
\* the first y at and below the first x, and the last y at and above the last x.
C27_FlatOutsideControlRange ==
  (Evaluated /\ StrictlyIncreasing(call.points)) =>
    /\ XLeq(call.x, PX(call.points, 1)) => call.out = PY(call.points, 1)
    /\ XLeq(PX(call.points, Len(call.points)), call.x) =>
         call.out = PY(call.points, Len(call.points))

\* a Monotone spline over three control points was evaluated strictly below
\* its first x, the first and the last y being different
C27_Witness ==
  /\ Evaluated
  /\ call.kind = "Monotone"
  /\ Len(call.points) = MaxPoints
  /\ StrictlyIncreasing(call.points)
  /\ XLess(call.x, PX(call.points, 1))
  /\ call.points[1].y # call.points[MaxPoints].y

-----------------------------------------------------------------------------
(* The order of the callbacks within one query *)

\* Decisions with up to MaxListed Considerations are added, events are raised
\* and the engine is queried
NextOrder ==
  \/ \E u \in Tiers, e \in EventLists, k \in 1..MaxListed : addDecision(u, e, k) /\ UNCHANGED <<trip, activation_graph>>
  \/ \E e \in Events : raiseEvent(e) /\ UNCHANGED <<trip, activation_graph>>
  \/ \E rd \in Readings(FlushedActive) : getBestDecision(rd) /\ UNCHANGED <<trip, activation_graph>>

SpecOrder == Init /\ [][NextOrder]_vars

\* the calls of Consideration callbacks made while the loop of getBestDecision
\* goes over the positions 1..p, each as <<position, place in the list>>
RECURSIVE CallsUpTo(_, _, _)
CallsUpTo(ar, rd, p) ==
  IF p = 0 THEN <<>>
  ELSE LET inv == Invoked(ar[p].decision, rd[ar[p].decision.name])
       IN CallsUpTo(ar, rd, p - 1) \o [c \in 1..Len(inv) |-> <<p, inv[c]>>]

\* the calls of one getBestDecision, in the order they are made
Calls(ar, rd) == CallsUpTo(ar, rd, BestDecision(ar, rd).evaluated)

\* C28: the callbacks of one query are called Decision by Decision in
\* increasing position of active_rules, hence by non-increasing tier, and
\* within a Decision in the order of its list; none is called twice.
C28_CallbacksInListedOrder ==
  \A rd \in Readings(FlushedActive) :
    LET ar == FlushedActive
        T  == Calls(ar, rd)
    IN \A a, b \in 1..Len(T) :
         a < b =>
           /\ \/ T[a][1] < T[b][1]
              \/ T[a][1] = T[b][1] /\ T[a][2] < T[b][2]
           /\ TierAt(ar, T[a][1]) >= TierAt(ar, T[b][1])

\* a query called both callbacks of one candidate and then a callback of a
\* candidate of a lower tier
C28_Witness ==
  /\ last.status = "ok"
  /\ \E rd \in Readings(active_rules) :
       LET T == Calls(active_rules, rd)
       IN /\ BestDecision(active_rules, rd).index = last.index
          /\ Len(T) >= 3
          /\ T[1] = <<1, 1>>
          /\ T[2] = <<1, 2>>
          /\ T[3][1] = 2
          /\ TierAt(active_rules, 2) < TierAt(active_rules, 1)

-----------------------------------------------------------------------------
(* The raised events *)

\* DecisionEngine::getActiveEvents returns a copy of active_events
getActiveEvents == active_events

\* C29: the set getActiveEvents returns follows the history of raises and
\* clears: raiseEvent(e) adds e and nothing else, clearEvent(e) removes e and
\* nothing else, clearActive and clear empty it, and no other operation
\* changes it; it is empty after construction.  So an event is in the set
\* exactly when it was raised and not cleared since its last raise.
C29_ActiveEventsFollowHistory ==
  [][/\ op'.name = "raiseEvent" => getActiveEvents' = getActiveEvents \cup {op'.event}
     /\ op'.name = "clearEvent" => getActiveEvents' = getActiveEvents \ {op'.event}
     /\ op'.name \in {"clearActive", "clear"} => getActiveEvents' = {}
     /\ op'.name \in {"addDecision", "getBestDecision", "executeBestDecision"}
          => getActiveEvents' = getActiveEvents
     /\ op.name = "construct" => getActiveEvents = {}]_vars

\* clearEvent was called for a raised event while another event was raised
\* too: the one is no longer in the set, the other still is
C29_Witness ==
  /\ op.name = "clearEvent"
  /\ op.active
  /\ op.event \notin getActiveEvents
  /\ getActiveEvents # {}

\* the entries of a list of Rules that are of one tier, in their order
InTier(ar, u) == SelectSeq(ar, LAMBDA r : r.decision.utility = u)

IsPrefix(s, t) == Len(s) <= Len(t) /\ SubSeq(t, 1, Len(s)) = s

\* C30: raiseEvent unloads nothing: within every tier the entries that were
\* in active_rules before the call are the first entries of that tier after
\* it, in the same order, and every event that was raised is still raised.
C30_RaiseKeepsPriorEntries ==
  [][op'.name = "raiseEvent" =>
       /\ \A u \in UtilityScore : IsPrefix(InTier(active_rules, u), InTier(active_rules', u))
       /\ active_events \subseteq active_events']_vars

\* an event was raised while another one was, and loaded an entry behind an
\* entry of the same tier that the other event had loaded
C30_Witness ==
  /\ op.name = "raiseEvent"
  /\ ~op.active
  /\ \E i, j \in 1..Len(active_rules) :
       /\ i < j
       /\ active_rules[i].event # op.event
       /\ active_rules[j].event = op.event
       /\ TierAt(active_rules, i) = TierAt(active_rules, j)

-----------------------------------------------------------------------------
(* The pending sort *)

\* a bucket in the order std::stable_sort leaves it in: by tier, higher
\* first, and within a tier in the order of the addDecision calls (the
\* engine names its Decisions 1, 2, ... in that order)
BucketSorted(bucket) ==
  \A i, j \in 1..Len(bucket) :
    i < j => \/ bucket[i].utility > bucket[j].utility
             \/ bucket[i].utility = bucket[j].utility /\ bucket[i].name < bucket[j].name

\* C31: every bucket of rules whose event is not in updated_events is sorted
\* by tier, higher first, with the order of registration kept within a tier;
\* and right after a raiseEvent or a getBestDecision, failed or not,
\* updated_events is empty.
C31_PendingSortProtocol ==
  /\ \A e \in Events \ updated_events : BucketSorted(rules[e])
  /\ op.name \in {"raiseEvent", "getBestDecision"} => updated_events = {}

\* a getBestDecision failed, and its flush had to reorder a bucket of two
C31_Witness ==
  /\ op.name = "getBestDecision"
  /\ last.status # "ok"
  /\ updated_events = {}
  /\ \E e \in Events :
       /\ Len(rules[e]) = 2
       /\ rules[e][1].name > rules[e][2].name

-----------------------------------------------------------------------------
(* The short circuit of Decision::computeScore *)

\* total_score after the first n Considerations have been multiplied in
RECURSIVE RunningProduct(_, _, _)
RunningProduct(u, scores, n) ==
  IF n = 0 THEN Rat(u)
  ELSE LET p   == RunningProduct(u, scores, n - 1)
           adj == Adjusted(scores[n], Len(scores))
       IN <<p[1] * adj[1], p[2] * adj[2]>>

\* C32: computeScore calls its Considerations in list order and stops with
\* the first one that brings the running product below 10^-6: the callbacks
\* called are the first m of the list, the product was not below 10^-6 before
\* the m-th, it is below 10^-6 after the m-th whenever later ones were left
\* out, and the product after the m-th is what is returned.
C32_ShortCircuit ==
  call.fn = "computeScore" =>
    LET m == Len(call.invoked)
    IN /\ call.invoked = [i \in 1..m |-> i]
       /\ m <= Len(call.scores)
       /\ \A n \in 1..(m - 1) : ~BelowEpsilon(RunningProduct(call.utility, call.scores, n))
       /\ m < Len(call.scores) => BelowEpsilon(RunningProduct(call.utility, call.scores, m))
       /\ call.out = RunningProduct(call.utility, call.scores, m)

\* of three Considerations the second scored 0 after the first had not: the
\* third was not called and 0 was returned
C32_Witness ==
  /\ call.fn = "computeScore"
  /\ call.utility > 0
  /\ Len(call.scores) = 3
  /\ call.scores[1] > 0
  /\ call.scores[2] = 0
  /\ call.scores[3] > 0
  /\ call.invoked = <<1, 2>>
  /\ IsZero(call.out)

-----------------------------------------------------------------------------
(* The activation graph of the BHUMAN build *)

\* constexpr float DEFAULT_SCORE = -1.0
DEFAULT_SCORE == <<0 - 1, 1>>

\* initializeActivationGraph: one entry (name, DEFAULT_SCORE) per candidate
initializeActivationGraph(ar) ==
  [i \in 1..Len(ar) |-> [name |-> ar[i].decision.name, score |-> DEFAULT_SCORE]]

\* updateActivationGraph(index, score), positions counted from 1
updateActivationGraph(dlist, index, score) ==
  [p \in 1..Len(dlist) |-> IF p = index THEN [dlist[p] EXCEPT !.score = score] ELSE dlist[p]]

\* finalizeUpdateActivationGraphFromDecision(updated_index): the entries from
\* updated_index to the last candidate get DEFAULT_SCORE
finalizeUpdateActivationGraphFromDecision(dlist, updated_index, size) ==
  [p \in 1..Len(dlist) |->
     IF updated_index <= p /\ p <= size THEN [dlist[p] EXCEPT !.score = DEFAULT_SCORE]
     ELSE dlist[p]]

\* the for loop of getBestDecision with its updateActivationGraph(i, score):
\* the dlist it leaves, and the position i it stopped at
RECURSIVE GraphLoop(_, _, _, _, _)
GraphLoop(dlist, ar, rd, i, highest_score) ==
  IF i > Len(ar)
  THEN [dlist |-> dlist, i |-> i]
  ELSE LET decision == ar[i].decision
           utility  == Rat(decision.utility)
       IN IF Less(utility, highest_score) \/ IsZero(utility)
          THEN [dlist |-> dlist, i |-> i]
          ELSE LET score   == computeScore(decision, rd[decision.name])
                   updated == updateActivationGraph(dlist, i, score)
               IN IF Less(highest_score, score)
                  THEN IF Equal(score, utility)
                       THEN [dlist |-> updated, i |-> i]
                       ELSE GraphLoop(updated, ar, rd, i + 1, score)
                  ELSE GraphLoop(updated, ar, rd, i + 1, highest_score)

\* the dlist after getBestDecision: nothing is written when active_rules is
\* empty; finalizeUpdateActivationGraphFromDecision(i + 1) runs only when a
\* Decision is returned, with i the C++ index the loop stopped at, which is
\* the position after it
GraphAfterBest(dlist, ar, rd) ==
  IF ar = <<>> THEN dlist
  ELSE LET g == GraphLoop(dlist, ar, rd, 1, Rat(0))
       IN IF BestDecision(ar, rd).status = "ok"
          THEN finalizeUpdateActivationGraphFromDecision(g.dlist, g.i + 1, Len(ar))
          ELSE g.dlist

\* the operations as built with BHUMAN
GraphRaise(e) ==
  /\ raiseEvent(e)
  /\ activation_graph' = initializeActivationGraph(active_rules')
  /\ UNCHANGED trip

GraphClearEvent(e) ==
  /\ clearEvent(e)
  /\ activation_graph' = initializeActivationGraph(active_rules')
  /\ UNCHANGED trip

GraphBest(rd) ==
  /\ getBestDecision(rd)
  /\ activation_graph' = GraphAfterBest(activation_graph, FlushedActive, rd)
  /\ UNCHANGED trip

NextGraph ==
  \/ \E u \in Tiers, e \in EventLists, k \in 0..MaxCons :
       addDecision(u, e, k) /\ UNCHANGED <<trip, activation_graph>>
  \/ \E e \in Events : GraphRaise(e)
  \/ \E e \in Events : GraphClearEvent(e)
  \/ clearActive /\ UNCHANGED <<trip, activation_graph>>
  \/ clear /\ UNCHANGED <<trip, activation_graph>>
  \/ \E rd \in Readings(FlushedActive) : GraphBest(rd)

SpecGraph == Init /\ [][NextGraph]_vars

\* C33: after raiseEvent, clearEvent, clearActive, clear and getBestDecision
\* the dlist of the activation graph is as long as active_rules and its i-th
\* entry has the name of the i-th candidate.
C33_GraphAligned ==
  op.name \in {"raiseEvent", "clearEvent", "clearActive", "clear", "getBestDecision"} =>
    /\ Len(activation_graph) = Len(active_rules)
    /\ \A i \in 1..Len(active_rules) : activation_graph[i].name = active_rules[i].decision.name

GraphCovers == Len(activation_graph) >= Len(active_rules)

\* C34: whenever getBestDecision returns a Decision, every candidate it did
\* not score in that call has DEFAULT_SCORE in the dlist afterwards, whatever
\* earlier calls had written there.
C34_UnscoredHaveSentinel ==
  \A rd \in Readings(FlushedActive) :
    LET ar == FlushedActive
        b  == BestDecision(ar, rd)
        g  == GraphAfterBest(activation_graph, ar, rd)
    IN b.status = "ok" =>
         \A p \in 1..Len(ar) : p > b.evaluated => g[p].score = DEFAULT_SCORE

-----------------------------------------------------------------------------
(* The segment search of Spline::Monotone *)

\* x lies strictly between the first and the last control x
StrictlyInside(points, x) ==
  XLess(PX(points, 1), x) /\ XLess(x, PX(points, Len(points)))

\* C35: for a Monotone spline over control points with strictly increasing x
\* and an argument strictly between the first and the last x, high never
\* wraps around below 0; an argument equal to a control x ends the search on
\* that point and its y is returned; any other argument ends it with a
\* segment index i in 0..n-2 such that x_i < x < x_(i+1).
C35_MonotoneSegmentSearch ==
  (/\ Evaluated
   /\ call.kind = "Monotone"
   /\ StrictlyIncreasing(call.points)
   /\ StrictlyInside(call.points, call.x)) =>
    LET n == Len(call.points)
        r == Search(call.points, call.x, 0, n - 2)
    IN /\ r.end # "wrapped"
       /\ \A j \in 1..n :
            call.x = PX(call.points, j) =>
              r.end = "point" /\ r.at = j - 1 /\ call.out = PY(call.points, j)
       /\ (\A j \in 1..n : call.x # PX(call.points, j)) =>
            /\ r.end = "segment"
            /\ r.at \in 0..(n - 2)
            /\ XLess(PX(call.points, r.at + 1), call.x)
            /\ XLess(call.x, PX(call.points, r.at + 2))

\* a Monotone spline over three control points was evaluated between its
\* first and its second x
C35_Witness ==
  /\ Evaluated
  /\ call.kind = "Monotone"
  /\ Len(call.points) = 3
  /\ StrictlyIncreasing(call.points)
  /\ XLess(PX(call.points, 1), call.x)
  /\ XLess(call.x, PX(call.points, 2))
  /\ Search(call.points, call.x, 0, 1) = [end |-> "segment", at |-> 0]

-----------------------------------------------------------------------------
(* The candidates and the registry *)

\* the entry is a copy of a Decision bound in the bucket of its event
Registered(r, entry) ==
  \E j \in 1..Len(r[entry.event]) :
    /\ r[entry.event][j].name = entry.decision.name
    /\ r[entry.event][j].utility = entry.decision.utility
    /\ r[entry.event][j].ncons = entry.decision.ncons

\* C36: every candidate (e, d) of active_rules is a copy of a Decision that
\* rules[e] holds, so active_rules is empty whenever rules holds no Decision.
C36_CandidatesAreRegistered ==
  /\ \A i \in 1..Len(active_rules) : Registered(rules, active_rules[i])
  /\ RulesEmpty => active_rules = <<>>

\* candidates loaded for both events are there, one of them executed since
\* it was copied from its bucket
C36_Witness ==
  /\ \E i, j \in 1..Len(active_rules) : active_rules[i].event # active_rules[j].event
  /\ \E i \in 1..Len(active_rules) : active_rules[i].decision.executed

-----------------------------------------------------------------------------
(* getBestDecision as a query *)

\* two buckets hold the same Decisions, each as often in the one as in the other
SameDecisions(b1, b2) ==
  /\ Len(b1) = Len(b2)
  /\ \A d \in SeqRange(b1) \cup SeqRange(b2) :
       Cardinality({i \in 1..Len(b1) : b1[i] = d}) = Cardinality({i \in 1..Len(b2) : b2[i] = d})

\* C37: getBestDecision, whether it returns or throws, leaves active_events
\* and active_rules as they were, entries and order, and every bucket of rules
\* with the same Decisions, possibly in another order.
C37_BestDecisionIsAQuery ==
  [][op'.name = "getBestDecision" =>
       /\ active_events' = active_events
       /\ active_rules' = active_rules
       /\ \A e \in Events : SameDecisions(rules'[e], rules[e])]_vars

\* getBestDecision returned a Decision out of two candidates, and a bucket of
\* two is in sorted order, which is not its order of registration
C37_Witness ==
  /\ op.name = "getBestDecision"
  /\ last.status = "ok"
  /\ Len(active_rules) = 2
  /\ \E e \in Events :
       /\ Len(rules[e]) = 2
       /\ rules[e][1].name > rules[e][2].name

====
